---------------------------- MODULE Spec2Model ----------------------------
(***************************************************************************)
(* Tendon Load Index calculator (app/page.tsx): the formula layer, the    *)
(* Page component with its state, handlers and renders, and the formulas  *)
(* of the simplified grade-fraction variant.                               *)
(*                                                                         *)
(* JavaScript numbers are held in fixed point: the integer n stands for   *)
(* the number n / ONE, so 850 is 0.85 and 2000000 is 2000.  Products and  *)
(* quotients are rounded down to the next thousandth.  The three values   *)
(* of a JavaScript number that are not finite are kept as integers out of *)
(* the finite range (Infinity, NegInfinity, NaN), and every arithmetic    *)
(* operator and comparison treats them as IEEE 754 does.                   *)
(***************************************************************************)
EXTENDS Integers, Sequences, FiniteSets

VARIABLES
    pc,      \* "call": the inputs are drawn; "done": the function has returned;
             \* for the Page, "dirty": a state setter has run and the render is
             \* pending; "rendered": the render has run
    args,    \* the inputs of the function under evaluation; for the Page, the
             \* values its useState hooks hold
    ret      \* what it returned; for the Page, what the last render computed
             \* and closed over

vars == <<pc, args, ret>>

NoRet == [none |-> TRUE]

----------------------------------------------------------------------------
(* JavaScript numbers                                                      *)

ONE == 10 * 10 * 10

Infinity == 2 * ONE * ONE * ONE
NegInfinity == -Infinity
NaN == Infinity + 7

IsNaN(a) == a = NaN
IsInf(a) == a = Infinity \/ a = NegInfinity
IsFinite(a) == ~IsNaN(a) /\ ~IsInf(a)

\* a < b, a <= b, a > b, a >= b: false as soon as one side is NaN
Lt(a, b) == ~IsNaN(a) /\ ~IsNaN(b) /\ a < b
Le(a, b) == ~IsNaN(a) /\ ~IsNaN(b) /\ a <= b
Gt(a, b) == Lt(b, a)
Ge(a, b) == Le(b, a)

Neg(a) == IF IsNaN(a) THEN NaN ELSE -a

\* a + b
Add(a, b) ==
    IF IsNaN(a) \/ IsNaN(b) THEN NaN
    ELSE IF IsInf(a) /\ IsInf(b) THEN (IF a = b THEN a ELSE NaN)
    ELSE IF IsInf(a) THEN a
    ELSE IF IsInf(b) THEN b
    ELSE a + b

\* a - b
Sub(a, b) == Add(a, Neg(b))

SignedInf(positive) == IF positive THEN Infinity ELSE NegInfinity

\* a * b, rounded down; the product is split so that no intermediate value
\* leaves the range of the model checker's integers
Mul(a, b) ==
    IF IsNaN(a) \/ IsNaN(b) THEN NaN
    ELSE IF IsInf(a) \/ IsInf(b)
         THEN (IF a = 0 \/ b = 0 THEN NaN ELSE SignedInf((a > 0) = (b > 0)))
    ELSE (a \div ONE) * b + ((a % ONE) * b) \div ONE

\* a / b for finite a and finite b > 0, rounded down
DivPos(a, b) == (a \div b) * ONE + ((a % b) * ONE) \div b

\* a / b
Div(a, b) ==
    IF IsNaN(a) \/ IsNaN(b) THEN NaN
    ELSE IF IsInf(a) THEN (IF IsInf(b) THEN NaN ELSE SignedInf((a > 0) = (b >= 0)))
    ELSE IF IsInf(b) THEN 0
    ELSE IF b = 0 THEN (IF a = 0 THEN NaN ELSE SignedInf(a > 0))
    ELSE IF b > 0 THEN DivPos(a, b)
    ELSE DivPos(-a, -b)

\* Math.max(a, b), Math.min(a, b): NaN as soon as one argument is NaN
MathMax(a, b) == IF IsNaN(a) \/ IsNaN(b) THEN NaN ELSE IF a >= b THEN a ELSE b
MathMin(a, b) == IF IsNaN(a) \/ IsNaN(b) THEN NaN ELSE IF a <= b THEN a ELSE b

----------------------------------------------------------------------------
(* Utilities + formulas                                                    *)

clamp(n, lo, hi) == MathMin(hi, MathMax(lo, n))

\* Math.exp(x): e^floor(x) by repeated multiplication, times the Taylor
\* series of e^f on the fractional part f in [0, 1)
RECURSIVE ExpSeries(_, _, _)
ExpSeries(f, term, n) ==
    IF term = 0 THEN 0
    ELSE term + ExpSeries(f, (term * f) \div (n * ONE), n + 1)

RECURSIVE ExpInt(_)
ExpInt(k) == IF k = 0 THEN ONE ELSE Mul(ExpInt(k - 1), 2718)

\* A result too large for the fixed-point range is held as Infinity and one
\* below a thousandth as 0: Math.exp itself overflows to Infinity above
\* x = 709.78 and underflows to 0 below x = -745.13.
MathExp(x) ==
    IF IsNaN(x) THEN NaN
    ELSE IF x = Infinity THEN Infinity
    ELSE IF x = NegInfinity THEN 0
    ELSE LET k == x \div ONE
             frac == ExpSeries(x % ONE, ONE, 1)
         IN  IF k > 13 THEN Infinity
             ELSE IF k < -13 THEN 0
             ELSE IF k >= 0 THEN Mul(ExpInt(k), frac)
             ELSE Div(frac, ExpInt(-k))

\* the largest s in lo .. hi with s * s <= n
RECURSIVE SqrtSearch(_, _, _)
SqrtSearch(n, lo, hi) ==
    IF lo = hi THEN lo
    ELSE LET mid == (lo + hi + 1) \div 2
         IN  IF mid * mid <= n THEN SqrtSearch(n, mid, hi)
             ELSE SqrtSearch(n, lo, mid - 1)

\* the exponents Math.pow is modelled for: -1, 0, 0.5, 1 and 2
PowExps == {-ONE, 0, ONE \div 2, ONE, 2 * ONE}

\* Math.log(x) for finite x > 0: the largest y between lo and hi with
\* Math.exp(y) <= x, found by bisection
RECURSIVE LogSearch(_, _, _)
LogSearch(x, lo, hi) ==
    IF lo >= hi THEN lo
    ELSE LET mid == (lo + hi + 1) \div 2
         IN  IF MathExp(mid) <= x THEN LogSearch(x, mid, hi)
             ELSE LogSearch(x, lo, mid - 1)

MathLog(x) == LogSearch(x, -7 * ONE, 13 * ONE)

\* Math.pow(x, e) for a finite e that is not in PowExps, through
\* exp(e * log |x|); a negative base has a real power only for a whole e
PowGeneral(x, e) ==
    LET odd == e % ONE = 0 /\ (e \div ONE) % 2 = 1
    IN  IF x = 0 THEN (IF e > 0 THEN 0 ELSE Infinity)
        ELSE IF x = Infinity THEN (IF e > 0 THEN Infinity ELSE 0)
        ELSE IF x = NegInfinity
             THEN (IF e < 0 THEN 0 ELSE IF odd THEN NegInfinity ELSE Infinity)
        ELSE IF x > 0 THEN MathExp(Mul(e, MathLog(x)))
        ELSE IF e % ONE # 0 THEN NaN
        ELSE IF odd THEN Neg(MathExp(Mul(e, MathLog(-x))))
        ELSE MathExp(Mul(e, MathLog(-x)))

\* Math.pow(x, e) for finite e: the exponents of PowExps exactly, the others
\* through PowGeneral
MathPow(x, e) ==
    CASE e = 0 -> ONE
      [] e # 0 /\ (IsNaN(x) \/ IsNaN(e)) -> NaN
      [] e = ONE /\ ~IsNaN(x) -> x
      [] e = 2 * ONE /\ ~IsNaN(x) -> Mul(x, x)
      [] e = ONE \div 2 /\ ~IsNaN(x) ->
            IF x = Infinity THEN Infinity
            ELSE IF x < 0 THEN NaN
            ELSE SqrtSearch(x * ONE, 0, x + ONE)
      [] e = -ONE /\ ~IsNaN(x) -> Div(ONE, x)
      [] OTHER -> PowGeneral(x, e)

\* Math.round(x): the nearest whole number, halves rounded up
MathRound(x) ==
    IF ~IsFinite(x) THEN x ELSE ((x + ONE \div 2) \div ONE) * ONE

\* Relative intensity from delta to Vmax (smooth logistic)
\* the value of ri before the clamp
riLogistic_risingInDelta(delta) ==
    Add(350, Div(750, Add(ONE, MathExp(Sub(1500, delta)))))

riLogistic(delta) ==
    Add(350, Div(750, Add(ONE, MathExp(Sub(delta, 1500)))))

riFromDeltaV(delta) ==
    LET ri == riLogistic(delta)
    IN  clamp(ri, 0, 1150)

\* Freshness factor from rest since last climb (days)
restFreshness_noCap(days) ==
    LET f == Add(850, Mul(20, MathMax(days, 0)))
    IN  clamp(f, 750, 1100)

restFreshness(days) ==
    LET f == Add(850, Mul(20, MathMin(MathMax(days, 0), 10 * ONE)))
    IN  clamp(f, 750, 1100)

\* Density factor from total TUT vs. total rest
densityFactor_restOverTotal(totalTUTs, totalRest, densityExp) ==
    LET ratio == Div(totalRest, MathMax(ONE, Add(totalTUTs, totalRest)))
    IN  MathPow(ratio, densityExp)

densityFactor(totalTUTs, totalRest, densityExp) ==
    LET ratio == Div(totalTUTs, MathMax(ONE, Add(totalTUTs, totalRest)))
    IN  MathPow(ratio, densityExp)

\* Fatigue/novelty weight for climb i (1-indexed)
climbWeight_fromIndex(i, fatigueRate) ==
    IF Le(fatigueRate, 0) THEN ONE
    ELSE MathExp(Mul(Neg(fatigueRate), i * ONE))

climbWeight(i, fatigueRate) ==
    IF Le(fatigueRate, 0) THEN ONE
    ELSE MathExp(Mul(Neg(fatigueRate), (i - 1) * ONE))

----------------------------------------------------------------------------
(* Recommendation helper                                                   *)

recommendRestDays_boundaryLow(TLI_total, ratioToAvg) ==
    LET band ==
            IF Le(ratioToAvg, 800) THEN [min |-> 0, max |-> 1]
            ELSE IF Le(ratioToAvg, 1200) THEN [min |-> 1, max |-> 1]
            ELSE IF Le(ratioToAvg, 1600) THEN [min |-> 1, max |-> 2]
            ELSE [min |-> 2, max |-> 3]
    IN  IF Lt(TLI_total, 500 * ONE) THEN [band EXCEPT !.min = 0] ELSE band

recommendRestDays_overrideAt500(TLI_total, ratioToAvg) ==
    LET band ==
            IF Lt(ratioToAvg, 800) THEN [min |-> 0, max |-> 1]
            ELSE IF Lt(ratioToAvg, 1200) THEN [min |-> 1, max |-> 1]
            ELSE IF Lt(ratioToAvg, 1600) THEN [min |-> 1, max |-> 2]
            ELSE [min |-> 2, max |-> 3]
    IN  IF Le(TLI_total, 500 * ONE) THEN [band EXCEPT !.min = 0] ELSE band

recommendRestDays_lowBandsSwapped(TLI_total, ratioToAvg) ==
    LET band ==
            IF Lt(ratioToAvg, 800) THEN [min |-> 1, max |-> 1]
            ELSE IF Lt(ratioToAvg, 1200) THEN [min |-> 0, max |-> 1]
            ELSE IF Lt(ratioToAvg, 1600) THEN [min |-> 1, max |-> 2]
            ELSE [min |-> 2, max |-> 3]
    IN  IF Lt(TLI_total, 500 * ONE) THEN [band EXCEPT !.min = 0] ELSE band

recommendRestDays(TLI_total, ratioToAvg) ==
    LET band ==
            IF Lt(ratioToAvg, 800) THEN [min |-> 0, max |-> 1]
            ELSE IF Lt(ratioToAvg, 1200) THEN [min |-> 1, max |-> 1]
            ELSE IF Lt(ratioToAvg, 1600) THEN [min |-> 1, max |-> 2]
            ELSE [min |-> 2, max |-> 3]
    IN  IF Lt(TLI_total, 500 * ONE) THEN [band EXCEPT !.min = 0] ELSE band

----------------------------------------------------------------------------
(* recommendRestDays on drawn inputs                                       *)

\* ratioToAvg runs over the tenths from -0.2 to MaxRatioTenths / 10, each
\* with its two neighbours one thousandth away
MaxRatioTenths == 20

RecRatios == {k * 100 + j : k \in -2 .. MaxRatioTenths, j \in {-1, 0, 1}}
RecTLIs == {-100 * ONE, 0, 400 * ONE, 500 * ONE - 1, 500 * ONE, 500 * ONE + 1,
            2000 * ONE}

InitRec ==
    /\ pc = "call"
    /\ args \in [TLI_total : RecTLIs, ratioToAvg : RecRatios]
    /\ ret = NoRet

CallRecommendRestDays ==
    /\ pc = "call"
    /\ ret' = recommendRestDays(args.TLI_total, args.ratioToAvg)
    /\ pc' = "done"
    /\ UNCHANGED args

NextRec == CallRecommendRestDays

SpecRec == InitRec /\ [][NextRec]_vars

\* C1: with TLI_total >= 500 the result is exactly the band of the table:
\* {0,1} below 0.8, {1,1} on [0.8, 1.2), {1,2} on [1.2, 1.6), {2,3} from 1.6
\* on, each boundary value in the higher band.
C1_BandTable ==
    (pc = "done" /\ args.TLI_total >= 500 * ONE) =>
        /\ args.ratioToAvg < 800 => ret = [min |-> 0, max |-> 1]
        /\ (800 <= args.ratioToAvg /\ args.ratioToAvg < 1200)
               => ret = [min |-> 1, max |-> 1]
        /\ (1200 <= args.ratioToAvg /\ args.ratioToAvg < 1600)
               => ret = [min |-> 1, max |-> 2]
        /\ args.ratioToAvg >= 1600 => ret = [min |-> 2, max |-> 3]

C1_Witness ==
    /\ pc = "done"
    /\ args = [TLI_total |-> 2000 * ONE, ratioToAvg |-> 1500]
    /\ ret = [min |-> 1, max |-> 2]

\* the maximum of the band a ratio falls in, read off the table
BandMax(r) == IF r < 800 THEN 1 ELSE IF r < 1200 THEN 1 ELSE IF r < 1600 THEN 2 ELSE 3
BandMin(r) == IF r < 800 THEN 0 ELSE IF r < 1600 THEN 1 ELSE 2

\* C2: with TLI_total < 500 the returned min is 0 whatever the band and the
\* max is the band's; with TLI_total >= 500 (500 included) the min is the
\* band's own.
C2_Override ==
    pc = "done" =>
        /\ args.TLI_total < 500 * ONE =>
               (ret.min = 0 /\ ret.max = BandMax(args.ratioToAvg))
        /\ args.TLI_total >= 500 * ONE => ret.min = BandMin(args.ratioToAvg)

C2_Witness ==
    /\ pc = "done"
    /\ args = [TLI_total |-> 400 * ONE, ratioToAvg |-> 2000]
    /\ ret = [min |-> 0, max |-> 3]

----------------------------------------------------------------------------
(* Page: the session totals, computed on every render                      *)

TLI_total(TLI_boulder, TLI_hangboard) == Add(TLI_boulder, TLI_hangboard)

ratioToAvg_fallbackZero(total, avg28d) ==
    IF Gt(avg28d, 0) THEN Div(total, avg28d) ELSE 0

ratioToAvg(total, avg28d) ==
    IF Gt(avg28d, 0) THEN Div(total, avg28d) ELSE ONE

spikeWarn_notStrict(total, avg28d) ==
    Gt(avg28d, 0) /\ Ge(total, Mul(1400, avg28d))

spikeWarn(total, avg28d) ==
    Gt(avg28d, 0) /\ Gt(total, Mul(1400, avg28d))

\* what one render derives from the two loads and the 4-week average
Session(TLI_boulder, TLI_hangboard, avg28d) ==
    LET total == TLI_total(TLI_boulder, TLI_hangboard)
        ratio == ratioToAvg(total, avg28d)
    IN  [TLI_total |-> total,
         ratioToAvg |-> ratio,
         spikeWarn |-> spikeWarn(total, avg28d),
         recRestDays |-> recommendRestDays(total, ratio)]

----------------------------------------------------------------------------
(* The session totals on drawn inputs                                      *)

\* avg28d runs over the hundreds from -200 to 100 * MaxAvgHundreds
MaxAvgHundreds == 12

SessionAvgs == {k * 100 * ONE : k \in -2 .. MaxAvgHundreds}
SessionBoulderTLIs ==
    {0, 39600, 1000 * ONE, 1680 * ONE - 1, 1680 * ONE, 1680 * ONE + 1}
SessionHangboardTLIs == {0, 117600, 400 * ONE}

InitSession ==
    /\ pc = "call"
    /\ args \in [TLI_boulder : SessionBoulderTLIs,
                 TLI_hangboard : SessionHangboardTLIs,
                 avg28d : SessionAvgs]
    /\ ret = NoRet

RenderSession ==
    /\ pc = "call"
    /\ ret' = Session(args.TLI_boulder, args.TLI_hangboard, args.avg28d)
    /\ pc' = "done"
    /\ UNCHANGED args

NextSession == RenderSession

SpecSession == InitSession /\ [][NextSession]_vars

\* C3: spikeWarn is true exactly when avg28d > 0 and TLI_total > 1.4 * avg28d
\* (strictly): with avg28d = 1200 it is true above 1680 and false at 1680, and
\* it is false for every TLI_total when avg28d <= 0.
C3_SpikeFlag ==
    pc = "done" =>
        /\ ret.spikeWarn = (args.avg28d > 0 /\ 10 * ret.TLI_total > 14 * args.avg28d)
        /\ (args.avg28d = 1200 * ONE /\ ret.TLI_total > 1680 * ONE) => ret.spikeWarn
        /\ (args.avg28d = 1200 * ONE /\ ret.TLI_total = 1680 * ONE) => ~ret.spikeWarn
        /\ args.avg28d <= 0 => ~ret.spikeWarn

C3_Witness ==
    /\ pc = "done"
    /\ args.avg28d = 1200 * ONE
    /\ ret.TLI_total = 1680 * ONE
    /\ ~ret.spikeWarn

\* C4: TLI_total is the sum of the two loads; ratioToAvg is TLI_total / avg28d
\* (to the thousandth) when avg28d > 0 and 1 when avg28d <= 0, and then the
\* recommended maximum is 1.
C4_RatioGuard ==
    pc = "done" =>
        /\ ret.TLI_total = args.TLI_boulder + args.TLI_hangboard
        /\ args.avg28d > 0 =>
               /\ ret.ratioToAvg * args.avg28d <= ret.TLI_total * ONE
               /\ ret.TLI_total * ONE < (ret.ratioToAvg + 1) * args.avg28d
        /\ args.avg28d <= 0 => (ret.ratioToAvg = ONE /\ ret.recRestDays.max = 1)

C4_Witness ==
    /\ pc = "done"
    /\ args.avg28d < 0
    /\ ret.TLI_total = 2080 * ONE
    /\ ret.ratioToAvg = ONE
    /\ ret.recRestDays = [min |-> 1, max |-> 1]

----------------------------------------------------------------------------
(* restFreshness on drawn inputs                                           *)

\* restDays runs over the half days from -3 to MaxRestHalfDays / 2, and two
\* values far outside
MaxRestHalfDays == 24

RestDayChoices ==
    {k * (ONE \div 2) : k \in -6 .. MaxRestHalfDays} \cup {-100 * ONE, 365 * ONE}

InitFR ==
    /\ pc = "call"
    /\ args \in [days : RestDayChoices, other : RestDayChoices]
    /\ ret = NoRet

CallRestFreshness ==
    /\ pc = "call"
    /\ ret' = [FR |-> restFreshness(args.days), FRother |-> restFreshness(args.other)]
    /\ pc' = "done"
    /\ UNCHANGED args

NextFR == CallRestFreshness

SpecFR == InitFR /\ [][NextFR]_vars

\* C8: restFreshness lies in [0.75, 1.1], is 0.85 for restDays <= 0, is
\* 0.85 + 0.02 * restDays on [0, 10], is 1.05 from 10 days on, and never
\* decreases as restDays grows.
C8_Freshness ==
    pc = "done" =>
        /\ 750 <= ret.FR /\ ret.FR <= 1100
        /\ args.days <= 0 => ret.FR = 850
        /\ (0 <= args.days /\ args.days <= 10 * ONE)
               => 50 * ret.FR = 50 * 850 + args.days
        /\ args.days >= 10 * ONE => ret.FR = 1050
        /\ args.days <= args.other => ret.FR <= ret.FRother

C8_Witness ==
    /\ pc = "done"
    /\ args = [days |-> 12 * ONE, other |-> 365 * ONE]
    /\ ret = [FR |-> 1050, FRother |-> 1050]

----------------------------------------------------------------------------
(* Bouldering with time-per-climb                                          *)

\* climbs.reduce((a, c) => a + Math.max(0, c.tutSec), 0), over the first n
RECURSIVE totalTUT_unclamped(_, _)
totalTUT_unclamped(climbs, n) ==
    IF n = 0 THEN 0
    ELSE Add(totalTUT_unclamped(climbs, n - 1), climbs[n].tutSec)

RECURSIVE totalTUT(_, _)
totalTUT(climbs, n) ==
    IF n = 0 THEN 0
    ELSE Add(totalTUT(climbs, n - 1), MathMax(0, climbs[n].tutSec))

totalRestWithin_noFloor(totalClimbs, avgRestBetweenClimbsSec) ==
    Mul((totalClimbs - 1) * ONE, MathMax(0, avgRestBetweenClimbsSec))

totalRestWithin(totalClimbs, avgRestBetweenClimbsSec) ==
    MathMax(0, Mul((totalClimbs - 1) * ONE, MathMax(0, avgRestBetweenClimbsSec)))

\* what climb c adds to the sum at position idx + 1 = i: ri * c.tutSec * w
contribution(c, i, vMax, fatigueRate) ==
    LET delta == Sub(vMax, c.grade)
        ri == riFromDeltaV(delta)
        w == climbWeight(i, fatigueRate)
    IN  Mul(Mul(ri, c.tutSec), w)

\* the weighted sum over the first n climbs
RECURSIVE weightedSum(_, _, _, _)
weightedSum(climbs, n, vMax, fatigueRate) ==
    IF n = 0 THEN 0
    ELSE Add(weightedSum(climbs, n - 1, vMax, fatigueRate),
             contribution(climbs[n], n, vMax, fatigueRate))

boulderingTLI(params) ==
    LET totalClimbs == Len(params.climbs)
        tut == totalTUT(params.climbs, totalClimbs)
        rest == totalRestWithin(totalClimbs, params.avgRestBetweenClimbsSec)
        FR == restFreshness(params.restDays)
        DF == IF params.useDensity
              THEN densityFactor(tut, rest, params.densityExp)
              ELSE ONE
        sum == weightedSum(params.climbs, totalClimbs, params.vMax,
                           params.fatigueRate)
    IN  [TLI_boulder |-> Mul(Mul(FR, DF), sum),
         meta |-> [totalTUT |-> tut, totalRestWithin |-> rest,
                   FR |-> FR, DF |-> DF]]

----------------------------------------------------------------------------
(* Hangboard (single row model)                                            *)

\* the value of an optional number that is not set
Undefined == Infinity + 11

relEdge(edgeMM, k) == MathPow(Div(20 * ONE, edgeMM), k)

gripMult(grip) ==
    IF grip = "full" THEN 1100 ELSE IF grip = "open" THEN 850 ELSE ONE

mvcEdge(row) ==
    LET mvc20 == IF row.mvc20kg = Undefined
                 THEN Add(row.bodyKg, 20 * ONE)
                 ELSE row.mvc20kg
    IN  Mul(Mul(mvc20, relEdge(row.edgeMM, row.kEdgeExp)), gripMult(row.grip))

hangboardSetTLI_restAfterEveryRep(row) ==
    LET ri == clamp(Div(Add(row.bodyKg, row.addedKg), mvcEdge(row)), 0, 1200)
        TUT == Mul(row.durationSec, row.reps)
        totalRest == Mul(row.restBetweenRepsSec, MathMax(0, row.reps))
        DF == MathPow(Div(TUT, MathMax(ONE, Add(TUT, totalRest))),
                      row.densityExpHB)
    IN  [perSet |-> Mul(Mul(ri, TUT), DF), TUT |-> TUT,
         totalRest |-> totalRest, DF |-> DF]

hangboardSetTLI(row) ==
    LET ri == clamp(Div(Add(row.bodyKg, row.addedKg), mvcEdge(row)), 0, 1200)
        TUT == Mul(row.durationSec, row.reps)
        totalRest == Mul(row.restBetweenRepsSec, MathMax(0, Sub(row.reps, ONE)))
        DF == MathPow(Div(TUT, MathMax(ONE, Add(TUT, totalRest))),
                      row.densityExpHB)
    IN  [perSet |-> Mul(Mul(ri, TUT), DF), TUT |-> TUT,
         totalRest |-> totalRest, DF |-> DF]

----------------------------------------------------------------------------
(* boulderingTLI on drawn inputs                                           *)

MaxClimbs == 3

ClimbChoices ==
    {[grade |-> 6 * ONE, tutSec |-> 25 * ONE],
     [grade |-> 7 * ONE, tutSec |-> 30 * ONE],
     [grade |-> 8 * ONE, tutSec |-> 35 * ONE],
     [grade |-> 6 * ONE, tutSec |-> -10 * ONE],
     [grade |-> 7 * ONE, tutSec |-> 0]}

ClimbLists == UNION {[1 .. n -> ClimbChoices] : n \in 0 .. MaxClimbs}

BoulderParams ==
    [vMax : {6 * ONE, 8 * ONE},
     restDays : {0, 2 * ONE},
     avgRestBetweenClimbsSec : {-30 * ONE, 90 * ONE},
     densityExp : {-ONE, 0, ONE \div 2},
     useDensity : BOOLEAN,
     fatigueRate : {0, 20},
     climbs : ClimbLists]

InitBoulder ==
    /\ pc = "call"
    /\ args \in BoulderParams
    /\ ret = NoRet

CallBoulderingTLI ==
    /\ pc = "call"
    /\ ret' = boulderingTLI(args)
    /\ pc' = "done"
    /\ UNCHANGED args

NextBoulder == CallBoulderingTLI

SpecBoulder == InitBoulder /\ [][NextBoulder]_vars

\* the climb list with every tutSec below 0 raised to 0
ClampedTut(climbs) ==
    [i \in DOMAIN climbs |->
        [climbs[i] EXCEPT !.tutSec = IF @ < 0 THEN 0 ELSE @]]

\* C5: a negative tutSec counts as tutSec = 0, in totalTUT and in the
\* weighted sum, so TLI_boulder is what the clamped climb list gives and is
\* never negative.
C5_NegativeTutIsZero ==
    pc = "done" =>
        LET clamped == boulderingTLI([args EXCEPT !.climbs = ClampedTut(@)])
        IN  /\ ret.meta.totalTUT = clamped.meta.totalTUT
            /\ ret.TLI_boulder = clamped.TLI_boulder
            /\ ret.TLI_boulder >= 0

\* C6: an empty climb list gives TLI_boulder = 0, totalTUT = 0 and
\* totalRestWithin = 0, whatever the other parameters are, for every
\* densityExp >= 0.
C6_EmptyClimbs ==
    (pc = "done" /\ args.climbs = <<>> /\ args.densityExp >= 0) =>
        /\ ret.TLI_boulder = 0
        /\ ret.meta.totalTUT = 0
        /\ ret.meta.totalRestWithin = 0

C6_Witness ==
    /\ pc = "done"
    /\ args.climbs = <<>>
    /\ args.useDensity
    /\ args.densityExp = ONE \div 2
    /\ args.avgRestBetweenClimbsSec = 90 * ONE
    /\ ret.TLI_boulder = 0

\* the sum of the tutSec that are above 0
RECURSIVE SumPositiveTut(_)
SumPositiveTut(climbs) ==
    IF climbs = <<>> THEN 0
    ELSE (IF Head(climbs).tutSec > 0 THEN Head(climbs).tutSec ELSE 0)
         + SumPositiveTut(Tail(climbs))

\* C7: totalTUT is the sum of max(0, tutSec) and totalRestWithin is
\* max(0, (n - 1) * max(0, avgRestBetweenClimbsSec)): 0 for n = 0 and n = 1,
\* and 90 and 180 for climbs [{6,25},{7,30},{8,35}] resting 90 s.
C7_TutAndRest ==
    pc = "done" =>
        LET n == Len(args.climbs)
            rest == IF args.avgRestBetweenClimbsSec > 0
                    THEN args.avgRestBetweenClimbsSec ELSE 0
        IN  /\ ret.meta.totalTUT = SumPositiveTut(args.climbs)
            /\ ret.meta.totalRestWithin = (IF n >= 1 THEN (n - 1) * rest ELSE 0)
            /\ n <= 1 => ret.meta.totalRestWithin = 0
            /\ ret.meta.totalRestWithin >= 0

C7_Witness ==
    /\ pc = "done"
    /\ args.climbs = <<[grade |-> 6 * ONE, tutSec |-> 25 * ONE],
                       [grade |-> 7 * ONE, tutSec |-> 30 * ONE],
                       [grade |-> 8 * ONE, tutSec |-> 35 * ONE]>>
    /\ args.avgRestBetweenClimbsSec = 90 * ONE
    /\ ret.meta.totalTUT = 90 * ONE
    /\ ret.meta.totalRestWithin = 180 * ONE

----------------------------------------------------------------------------
(* densityFactor, and the density of a hangboard set, on drawn inputs      *)

\* work and rest run over the quarter seconds from 0 to MaxQuarterSeconds / 4,
\* and one value of the size of a session
MaxQuarterSeconds == 6

WorkChoices == {k * (ONE \div 4) : k \in 0 .. MaxQuarterSeconds} \cup {90 * ONE}
RestChoices == {k * (ONE \div 4) : k \in 0 .. MaxQuarterSeconds} \cup {180 * ONE}

HangboardRows ==
    [bodyKg : {70 * ONE}, addedKg : {10 * ONE}, edgeMM : {15 * ONE},
     grip : {"half"},
     durationSec : {ONE \div 10, ONE \div 2, 10 * ONE},
     reps : {ONE, 5 * ONE},
     restBetweenRepsSec : {0, 3 * ONE},
     mvc20kg : {Undefined},
     densityExpHB : PowExps,
     kEdgeExp : {ONE \div 2}]

InitDF ==
    /\ pc = "call"
    /\ \/ args \in [fn : {"densityFactor"},
                    totalTUTs : WorkChoices, otherTUTs : WorkChoices,
                    totalRest : RestChoices, otherRest : RestChoices,
                    densityExp : PowExps]
       \/ args \in [fn : {"hangboardSetTLI"}, row : HangboardRows]
    /\ ret = NoRet

\* densityFactor at the drawn point, at another work and at another rest
CallDensityFactor ==
    /\ pc = "call"
    /\ args.fn = "densityFactor"
    /\ ret' = [DF |-> densityFactor(args.totalTUTs, args.totalRest, args.densityExp),
               DFotherTUTs |->
                   densityFactor(args.otherTUTs, args.totalRest, args.densityExp),
               DFotherRest |->
                   densityFactor(args.totalTUTs, args.otherRest, args.densityExp)]
    /\ pc' = "done"
    /\ UNCHANGED args

CallHangboardSetTLI ==
    /\ pc = "call"
    /\ args.fn = "hangboardSetTLI"
    /\ ret' = hangboardSetTLI(args.row)
    /\ pc' = "done"
    /\ UNCHANGED args

NextDF == CallDensityFactor \/ CallHangboardSetTLI

SpecDF == InitDF /\ [][NextDF]_vars

\* C9: with zero rest and positive work the density factor is 1 for every
\* exponent, in densityFactor and in the density of a hangboard set.
C9_ZeroRestFullLoad ==
    pc = "done" =>
        /\ (args.fn = "densityFactor" /\ args.totalTUTs > 0 /\ args.totalRest = 0)
               => ret.DF = ONE
        /\ (args.fn = "hangboardSetTLI" /\ ret.TUT > 0 /\ ret.totalRest = 0)
               => ret.DF = ONE

\* C10, as claimed: for every exponent, densityFactor never decreases as the
\* work grows, never increases as the rest grows, and is 1 at exponent 0.
C10_MonotoneEveryExp ==
    (pc = "done" /\ args.fn = "densityFactor") =>
        /\ args.totalTUTs <= args.otherTUTs => ret.DF <= ret.DFotherTUTs
        /\ args.totalRest <= args.otherRest => ret.DF >= ret.DFotherRest
        /\ args.densityExp = 0 => ret.DF = ONE

\* C10, amended: for every exponent >= 0, densityFactor never decreases as
\* the work grows and never increases as the rest grows, for all work and
\* rest >= 0 (the region work + rest < 1 included); and it is 1 at exponent 0.
C10_MonotoneNonNegExp ==
    (pc = "done" /\ args.fn = "densityFactor" /\ args.densityExp >= 0) =>
        /\ args.totalTUTs <= args.otherTUTs => ret.DF <= ret.DFotherTUTs
        /\ args.totalRest <= args.otherRest => ret.DF >= ret.DFotherRest
        /\ args.densityExp = 0 => ret.DF = ONE

C10_Witness ==
    /\ pc = "done"
    /\ args.fn = "densityFactor"
    /\ args.densityExp = ONE \div 2
    /\ args.totalTUTs = ONE \div 4 /\ args.otherTUTs = ONE \div 2
    /\ args.totalRest = ONE \div 4 /\ args.otherRest = 6 * (ONE \div 4)
    /\ ret.DF = 500
    /\ ret.DFotherTUTs > ret.DF
    /\ ret.DFotherRest < ret.DF

----------------------------------------------------------------------------
(* riFromDeltaV on drawn inputs                                            *)

\* delta runs over the half grades from -5 to MaxDeltaHalves / 2, and two
\* values far outside, where Math.exp underflows and overflows
MaxDeltaHalves == 16

DeltaChoices ==
    {k * (ONE \div 2) : k \in -10 .. MaxDeltaHalves} \cup {-1000 * ONE, 1000 * ONE}

InitRI ==
    /\ pc = "call"
    /\ args \in [delta : DeltaChoices, other : DeltaChoices]
    /\ ret = NoRet

CallRiFromDeltaV ==
    /\ pc = "call"
    /\ ret' = [ri |-> riLogistic(args.delta),
               RI |-> riFromDeltaV(args.delta),
               RIother |-> riFromDeltaV(args.other)]
    /\ pc' = "done"
    /\ UNCHANGED args

NextRI == CallRiFromDeltaV

SpecRI == InitRI /\ [][NextRI]_vars

\* C11, as claimed: riFromDeltaV never increases as delta grows and lies in
\* [0, 1.15]; before the clamp the value is strictly between 0.35 and 1.10,
\* so neither 0 nor 1.15 is returned.
C11_StrictlyInside ==
    pc = "done" =>
        /\ args.delta <= args.other => ret.RI >= ret.RIother
        /\ 0 <= ret.RI /\ ret.RI <= 1150
        /\ 350 < ret.ri /\ ret.ri < 1100
        /\ ret.RI # 0 /\ ret.RI # 1150

\* C11, amended: the value before the clamp lies between 0.35 and 1.10, both
\* ends included (they are returned where Math.exp overflows or underflows),
\* and strictly inside for delta from -5 to 8; the rest as claimed.
C11_Inside ==
    pc = "done" =>
        /\ args.delta <= args.other => ret.RI >= ret.RIother
        /\ 0 <= ret.RI /\ ret.RI <= 1150
        /\ 350 <= ret.ri /\ ret.ri <= 1100
        /\ (-5 * ONE <= args.delta /\ args.delta <= 8 * ONE)
               => (350 < ret.ri /\ ret.ri < 1100)
        /\ ret.RI = ret.ri
        /\ ret.RI # 0 /\ ret.RI # 1150

C11_Witness ==
    /\ pc = "done"
    /\ args = [delta |-> 1000 * ONE, other |-> -1000 * ONE]
    /\ ret = [ri |-> 350, RI |-> 350, RIother |-> 1100]

----------------------------------------------------------------------------
(* climbWeight, and boulderingTLI on a reordered climb list                *)

\* positions run from 1 to MaxPosition, climb lists up to MaxOrderClimbs long
MaxPosition == 20
MaxOrderClimbs == 3

\* -0.01, 0, three rates of the form's range (0.005 to 0.1), and one far above
FatigueRates == {-10, 0, 5, 20, 100, 1000 * ONE}

OrderClimbChoices ==
    {[grade |-> 6 * ONE, tutSec |-> 25 * ONE],
     [grade |-> 7 * ONE, tutSec |-> 30 * ONE],
     [grade |-> 8 * ONE, tutSec |-> 35 * ONE]}

OrderClimbLists ==
    UNION {[1 .. n -> OrderClimbChoices] : n \in 0 .. MaxOrderClimbs}

\* the list with the climbs at positions a and b exchanged
Swapped(climbs, a, b) ==
    IF a \in DOMAIN climbs /\ b \in DOMAIN climbs
    THEN [climbs EXCEPT ![a] = climbs[b], ![b] = climbs[a]]
    ELSE climbs

InitOrder ==
    /\ pc = "call"
    /\ args \in [fatigueRate : FatigueRates,
                 i : 1 .. MaxPosition,
                 climbs : OrderClimbLists,
                 swap : {<<1, 2>>, <<1, 3>>, <<2, 3>>},
                 vMax : {8 * ONE}, restDays : {2 * ONE},
                 avgRestBetweenClimbsSec : {90 * ONE},
                 densityExp : {ONE \div 2}, useDensity : {TRUE}]
    /\ ret = NoRet

\* the weights at positions 1, i and i + 1; boulderingTLI on the list and on
\* the list with two climbs exchanged; one climb counted at position i and
\* at position i + 1
CallClimbWeight ==
    /\ pc = "call"
    /\ LET params == [vMax |-> args.vMax, restDays |-> args.restDays,
                      avgRestBetweenClimbsSec |-> args.avgRestBetweenClimbsSec,
                      densityExp |-> args.densityExp,
                      useDensity |-> args.useDensity,
                      fatigueRate |-> args.fatigueRate,
                      climbs |-> args.climbs]
           moved == [params EXCEPT
                        !.climbs = Swapped(@, args.swap[1], args.swap[2])]
           c == [grade |-> 7 * ONE, tutSec |-> 30 * ONE]
       IN  ret' = [first |-> climbWeight(1, args.fatigueRate),
                   w |-> climbWeight(args.i, args.fatigueRate),
                   wNext |-> climbWeight(args.i + 1, args.fatigueRate),
                   TLI_boulder |-> boulderingTLI(params).TLI_boulder,
                   TLI_reordered |-> boulderingTLI(moved).TLI_boulder,
                   early |-> contribution(c, args.i, args.vMax, args.fatigueRate),
                   late |-> contribution(c, args.i + 1, args.vMax,
                                         args.fatigueRate)]
    /\ pc' = "done"
    /\ UNCHANGED args

NextOrder == CallClimbWeight

SpecOrder == InitOrder /\ [][NextOrder]_vars

\* C12, as claimed: the first climb has weight 1, every climb has weight 1
\* when fatigueRate <= 0, the weights strictly decrease with the position
\* when fatigueRate > 0; TLI_boulder does not change under reordering when
\* fatigueRate <= 0, and a climb of positive tutSec moved one position later
\* adds strictly less when fatigueRate > 0.
C12_StrictDecay ==
    pc = "done" =>
        /\ ret.first = ONE
        /\ args.fatigueRate <= 0 => (ret.w = ONE /\ ret.wNext = ONE)
        /\ args.fatigueRate > 0 => ret.wNext < ret.w
        /\ args.fatigueRate <= 0 => ret.TLI_reordered = ret.TLI_boulder
        /\ args.fatigueRate > 0 => ret.late < ret.early

\* C12, amended: when fatigueRate > 0 the weights never increase with the
\* position and a climb moved later never adds more; both strictly for the
\* rates of the form (0.005 to 0.1) over the first 20 positions.  The rest
\* as claimed.
C12_Decay ==
    pc = "done" =>
        /\ ret.first = ONE
        /\ args.fatigueRate <= 0 => (ret.w = ONE /\ ret.wNext = ONE)
        /\ args.fatigueRate > 0 => (ret.wNext <= ret.w /\ ret.late <= ret.early)
        /\ (5 <= args.fatigueRate /\ args.fatigueRate <= 100 /\ args.i < 20)
               => (ret.wNext < ret.w /\ ret.late < ret.early)
        /\ args.fatigueRate <= 0 => ret.TLI_reordered = ret.TLI_boulder

C12_Witness ==
    /\ pc = "done"
    /\ args.fatigueRate = 1000 * ONE
    /\ args.i = 2
    /\ ret.w = 0 /\ ret.wNext = 0
    /\ ret.early = 0 /\ ret.late = 0

----------------------------------------------------------------------------
(* hangboardSetTLI on drawn rows                                           *)

MaxReps == 5

\* body weights that make the estimated mvc20 positive, zero and negative;
\* added weights down to more assistance than body weight; whole and
\* fractional reps
SetRows ==
    [bodyKg : {70 * ONE, -20 * ONE, -30 * ONE},
     addedKg : {40 * ONE, 10 * ONE, -70 * ONE, -80 * ONE},
     edgeMM : {15 * ONE, 20 * ONE},
     grip : {"open", "half", "full"},
     durationSec : {0, ONE \div 10, 10 * ONE},
     reps : {ONE, 5 * (ONE \div 2), MaxReps * ONE},
     restBetweenRepsSec : {0, 3 * ONE},
     mvc20kg : {Undefined, 50 * ONE},
     densityExpHB : {-ONE, 0, ONE \div 2, ONE},
     kEdgeExp : {0, ONE \div 2}]

InitHB ==
    /\ pc = "call"
    /\ args \in [row : SetRows, otherRest : {0, 3 * ONE, 180 * ONE}]
    /\ ret = NoRet

\* hangboardSetTLI on the row and on the row with another rest between reps
CallSetTLI ==
    /\ pc = "call"
    /\ ret' = [out |-> hangboardSetTLI(args.row),
               outOtherRest |->
                   hangboardSetTLI([args.row EXCEPT
                                       !.restBetweenRepsSec = args.otherRest])]
    /\ pc' = "done"
    /\ UNCHANGED args

NextHB == CallSetTLI

SpecHB == InitHB /\ [][NextHB]_vars

\* C13: TUT = durationSec * reps and totalRest = restBetweenRepsSec *
\* max(0, reps - 1); for every row with mvcEdge > 0, durationSec >= 0,
\* reps >= 1, restBetweenRepsSec >= 0 and densityExpHB >= 0 the result has
\* 0 <= perSet <= 1.2 * TUT, perSet = 0 whenever bodyKg + addedKg <= 0, and
\* with reps = 1 the rest between reps has no effect on perSet.
C13_SetBounds ==
    pc = "done" =>
        LET row == args.row
        IN  /\ ret.out.TUT = Mul(row.durationSec, row.reps)
            /\ ret.out.totalRest =
                   Mul(row.restBetweenRepsSec, MathMax(0, row.reps - ONE))
            /\ (/\ Gt(mvcEdge(row), 0)
                /\ row.durationSec >= 0
                /\ row.reps >= ONE
                /\ row.restBetweenRepsSec >= 0
                /\ row.densityExpHB >= 0)
               => /\ Le(0, ret.out.perSet)
                  /\ Le(ret.out.perSet, Mul(1200, ret.out.TUT))
                  /\ row.bodyKg + row.addedKg <= 0 => ret.out.perSet = 0
                  /\ row.reps = ONE => ret.outOtherRest.perSet = ret.out.perSet

\* one rep, a positive load, and two different rests between reps
C13_Witness ==
    /\ pc = "done"
    /\ Gt(mvcEdge(args.row), 0)
    /\ args.row.reps = ONE
    /\ args.row.densityExpHB = ONE \div 2
    /\ args.row.durationSec = 10 * ONE
    /\ args.row.restBetweenRepsSec = 3 * ONE
    /\ args.otherRest = 180 * ONE
    /\ ret.out.perSet > 0
    /\ ret.out.perSet = ret.outOtherRest.perSet
    /\ ret.out.perSet <= 12 * ONE

----------------------------------------------------------------------------
(* The simplified variant (src/app/page.tsx): grade fractions              *)

\* the sum of the finite fractions of the first n rows
RECURSIVE sumFractions(_, _)
sumFractions(rows, n) ==
    IF n = 0 THEN 0
    ELSE Add(sumFractions(rows, n - 1),
             IF IsFinite(rows[n].fraction) THEN rows[n].fraction ELSE 0)

normalizeFractions_asEntered(rows) == rows

normalizeFractions(rows) ==
    LET s == sumFractions(rows, Len(rows))
        safe == IF Gt(s, 0) THEN s ELSE ONE
    IN  [i \in DOMAIN rows |-> [rows[i] EXCEPT !.fraction = Div(@, safe)]]

\* the reduce over the first n grade fractions: acc + ri * (Tw * g.fraction)
RECURSIVE simplified_reduce(_, _, _, _)
simplified_reduce(gradeFractions, n, vMax, Tw) ==
    IF n = 0 THEN 0
    ELSE LET g == gradeFractions[n]
             delta == Sub(vMax, g.grade)
             ri == riFromDeltaV(delta)
         IN  Add(simplified_reduce(gradeFractions, n - 1, vMax, Tw),
                 Mul(Mul(Tw, g.fraction), ri))

\* boulderingTLI of the simplified variant
simplified_boulderingTLI(params) ==
    LET fw == Div(params.workRestRatio, Add(ONE, params.workRestRatio))
        Tw == Mul(Mul(params.totalMinutes, 60 * ONE), fw)
        DF == IF params.useDensity THEN MathPow(fw, ONE \div 2) ELSE ONE
    IN  Mul(simplified_reduce(params.gradeFractions, Len(params.gradeFractions),
                              params.vMax, Tw),
            DF)

\* TLI_boulder as the simplified Page computes it from its state
simplified_TLI_boulder(state) ==
    simplified_boulderingTLI(
        [vMax |-> state.vMax,
         totalMinutes |-> state.totalMinutes,
         workRestRatio |-> state.workRestRatio,
         gradeFractions |-> normalizeFractions(state.gradeFractions),
         useDensity |-> state.useDensity])

MaxFractions == 3

FractionRows ==
    [grade : {6 * ONE, 8 * ONE},
     fraction : {-200, 100, 400, Infinity}]

FractionLists == UNION {[1 .. n -> FractionRows] : n \in 0 .. MaxFractions}

\* every fraction of rows multiplied by k
Scaled(rows, k) ==
    [i \in DOMAIN rows |-> [rows[i] EXCEPT !.fraction = Mul(@, k)]]

InitFractions ==
    /\ pc = "call"
    /\ args \in [gradeFractions : FractionLists,
                 k : {ONE \div 2, 2 * ONE},
                 vMax : {8 * ONE},
                 totalMinutes : {30 * ONE, 60 * ONE},
                 workRestRatio : {0, ONE \div 2, ONE},
                 useDensity : BOOLEAN]
    /\ ret = NoRet

\* the fractions handed to boulderingTLI and their sum; TLI_boulder for the
\* entered fractions and for the entered fractions times k
CallNormalizeFractions ==
    /\ pc = "call"
    /\ LET passed == normalizeFractions(args.gradeFractions)
       IN  ret' = [passed |-> passed,
                   sum |-> sumFractions(passed, Len(passed)),
                   TLI_boulder |-> simplified_TLI_boulder(args),
                   TLI_scaled |->
                       simplified_TLI_boulder(
                           [args EXCEPT !.gradeFractions = Scaled(@, args.k)])]
    /\ pc' = "done"
    /\ UNCHANGED args

NextFractions == CallNormalizeFractions

SpecFractions == InitFractions /\ [][NextFractions]_vars

AllFinite(rows) == \A i \in DOMAIN rows : IsFinite(rows[i].fraction)

\* C14: when the entered fractions are finite and their sum is > 0, the
\* fractions passed to boulderingTLI sum to 1 (to the last thousandth of each
\* row) and multiplying every entered fraction by the same k > 0 leaves
\* TLI_boulder unchanged; when the sum is <= 0 the fractions are passed
\* through unchanged.
C14_Renormalized ==
    pc = "done" =>
        LET rows == args.gradeFractions
            s == sumFractions(rows, Len(rows))
        IN  /\ (AllFinite(rows) /\ s > 0)
                => /\ ONE - Len(rows) <= ret.sum /\ ret.sum <= ONE
                   /\ ret.TLI_scaled = ret.TLI_boulder
            /\ (AllFinite(rows) /\ s <= 0) => ret.passed = rows

\* fractions 0.1 and 0.4 are passed as 0.2 and 0.8, doubled or not
C14_Witness ==
    /\ pc = "done"
    /\ Len(args.gradeFractions) = 2
    /\ args.gradeFractions[1].fraction = 100
    /\ args.gradeFractions[2].fraction = 400
    /\ args.k = 2 * ONE
    /\ ret.passed[1].fraction = 200
    /\ ret.passed[2].fraction = 800
    /\ ret.sum = ONE
    /\ ret.TLI_boulder > 0
    /\ ret.TLI_scaled = ret.TLI_boulder

----------------------------------------------------------------------------
(* The Page component: state, edits and renders                            *)

\* the number of edits in a run
MaxEdits == 2

\* args: the useState values; climbsRef and hbRef stand for the identity of
\* the climbs array and of the hb object (a new number is a new object);
\* last is the handler that ran last, edits how many have run
PageInit ==
    [vMax |-> 8 * ONE,
     restDays |-> 2 * ONE,
     avgRestBetweenClimbsSec |-> 90 * ONE,
     densityExp |-> ONE \div 2,
     useDensity |-> TRUE,
     fatigueRate |-> 20,
     climbs |-> <<[grade |-> 6 * ONE, tutSec |-> 25 * ONE],
                  [grade |-> 7 * ONE, tutSec |-> 30 * ONE],
                  [grade |-> 8 * ONE, tutSec |-> 35 * ONE]>>,
     hb |-> [bodyKg |-> 70 * ONE,
             addedKg |-> 10 * ONE,
             edgeMM |-> 15 * ONE,
             grip |-> "half",
             durationSec |-> 10 * ONE,
             reps |-> 5 * ONE,
             restBetweenRepsSec |-> 0,
             mvc20kg |-> Undefined,
             densityExpHB |-> ONE \div 2,
             kEdgeExp |-> 450,
             sets |-> 3 * ONE],
     avg28d |-> 1200 * ONE,
     climbsRef |-> 0,
     hbRef |-> 0,
     last |-> [op |-> "none", i |-> 0, n |-> 0],
     edits |-> 0]

\* the dependency lists of the two useMemo hooks; climbs and hb are compared
\* by identity
boulderDeps_withoutFatigueRate(state) ==
    <<state.vMax, state.restDays, state.avgRestBetweenClimbsSec,
      state.densityExp, state.useDensity, state.climbsRef>>

boulderDeps(state) ==
    <<state.vMax, state.restDays, state.avgRestBetweenClimbsSec,
      state.densityExp, state.useDensity, state.fatigueRate, state.climbsRef>>

hbDeps(state) == <<state.hbRef>>

boulderParams(state) ==
    [vMax |-> state.vMax,
     restDays |-> state.restDays,
     avgRestBetweenClimbsSec |-> state.avgRestBetweenClimbsSec,
     densityExp |-> state.densityExp,
     useDensity |-> state.useDensity,
     fatigueRate |-> state.fatigueRate,
     climbs |-> state.climbs]

TLI_hangboard(perSet, sets) == Mul(perSet, sets)

\* what a render shows, given the values of its two memos
Shown(boulder, hbCalc, state) ==
    LET hangboard == TLI_hangboard(hbCalc.perSet, state.hb.sets)
        session == Session(boulder.TLI_boulder, hangboard, state.avg28d)
    IN  [TLI_boulder |-> boulder.TLI_boulder,
         TLI_hangboard |-> hangboard,
         TLI_total |-> session.TLI_total,
         ratioToAvg |-> session.ratioToAvg,
         spikeWarn |-> session.spikeWarn,
         recRestDays |-> session.recRestDays]

\* one render: each useMemo keeps its value when its dependencies are the
\* ones of the previous render and computes it otherwise
Render ==
    /\ pc = "dirty"
    /\ LET first == ret = NoRet
           boulder == IF ~first /\ ret.boulderMemo.deps = boulderDeps(args)
                      THEN ret.boulderMemo.value
                      ELSE boulderingTLI(boulderParams(args))
           hbCalc == IF ~first /\ ret.hbMemo.deps = hbDeps(args)
                     THEN ret.hbMemo.value
                     ELSE hangboardSetTLI(args.hb)
       IN  ret' = [state |-> args,
                   boulderMemo |-> [deps |-> boulderDeps(args), value |-> boulder],
                   hbMemo |-> [deps |-> hbDeps(args), value |-> hbCalc],
                   shown |-> Shown(boulder, hbCalc, args)]
    /\ pc' = "rendered"
    /\ UNCHANGED args

\* what a number field hands to its onChange: Number(e.target.value) for the
\* entries 0, -1 and 2.5
Entries == {0, -ONE, 5 * (ONE \div 2)}

\* a handler runs on the rendered page and leaves the state `next`; the
\* render that follows is pending
Dispatch(op, i, n, next) ==
    /\ pc = "rendered"
    /\ args.edits < MaxEdits
    /\ args' = [next EXCEPT !.last = [op |-> op, i |-> i, n |-> n],
                            !.edits = @ + 1]
    /\ pc' = "dirty"
    /\ UNCHANGED ret

SetVMax ==
    \E n \in Entries : Dispatch("setVMax", 0, n, [args EXCEPT !.vMax = n])

SetRestDays ==
    \E n \in Entries : Dispatch("setRestDays", 0, n, [args EXCEPT !.restDays = n])

SetAvgRestBetweenClimbsSec ==
    \E n \in Entries : Dispatch("setAvgRestBetweenClimbsSec", 0, n, [args EXCEPT !.avgRestBetweenClimbsSec = n])

SetDensityExp ==
    \E n \in Entries : Dispatch("setDensityExp", 0, n, [args EXCEPT !.densityExp = n])

SetFatigueRate ==
    \E n \in Entries : Dispatch("setFatigueRate", 0, n, [args EXCEPT !.fatigueRate = n])

SetAvg28d ==
    \E n \in Entries : Dispatch("setAvg28d", 0, n, [args EXCEPT !.avg28d = n])

SetUseDensity ==
    \E checked \in BOOLEAN :
        Dispatch("setUseDensity", 0, 0, [args EXCEPT !.useDensity = checked])

\* the updaters handed to setClimbs, on the previous list and the row (from 1)
editGrade(prev, i, n) ==
    [idx \in DOMAIN prev |->
        IF idx = i THEN [prev[idx] EXCEPT !.grade = n] ELSE prev[idx]]

editTutSec(prev, i, n) ==
    [idx \in DOMAIN prev |->
        IF idx = i THEN [prev[idx] EXCEPT !.tutSec = n] ELSE prev[idx]]

removeClimb(prev, i) ==
    SubSeq(prev, 1, i - 1) \o SubSeq(prev, i + 1, Len(prev))

duplicateClimb_atEnd(prev, i) == Append(prev, prev[i])

duplicateClimb(prev, i) ==
    LET row == prev[i]
    IN  SubSeq(prev, 1, i) \o <<row>> \o SubSeq(prev, i + 1, Len(prev))

addClimb(prev) == Append(prev, [grade |-> 6 * ONE, tutSec |-> 20 * ONE])

\* setClimbs(updater): the list the updater returns is a new array
setClimbs(next) == [args EXCEPT !.climbs = next, !.climbsRef = args.edits + 1]

EditGrade ==
    \E i \in DOMAIN args.climbs, n \in Entries :
        Dispatch("grade", i, n, setClimbs(editGrade(args.climbs, i, n)))

EditTutSec ==
    \E i \in DOMAIN args.climbs, n \in Entries :
        Dispatch("tutSec", i, n, setClimbs(editTutSec(args.climbs, i, n)))

RemoveClimb ==
    \E i \in DOMAIN args.climbs :
        Dispatch("Remove", i, 0, setClimbs(removeClimb(args.climbs, i)))

DuplicateClimb ==
    \E i \in DOMAIN args.climbs :
        Dispatch("Duplicate", i, 0, setClimbs(duplicateClimb(args.climbs, i)))

AddClimb ==
    Dispatch("Add", 0, 0, setClimbs(addClimb(args.climbs)))

\* setHb(object): the object is a new one, spread from the hb the last render
\* closed over
setHb(next) == [args EXCEPT !.hb = next, !.hbRef = args.edits + 1]

SetBodyKg ==
    \E n \in Entries :
        Dispatch("bodyKg", 0, n,
                 setHb([ret.state.hb EXCEPT !.bodyKg = n]))

SetAddedKg ==
    \E n \in Entries :
        Dispatch("addedKg", 0, n,
                 setHb([ret.state.hb EXCEPT !.addedKg = n]))

SetEdgeMM ==
    \E n \in Entries :
        Dispatch("edgeMM", 0, n,
                 setHb([ret.state.hb EXCEPT !.edgeMM = n]))

SetDurationSec ==
    \E n \in Entries :
        Dispatch("durationSec", 0, n,
                 setHb([ret.state.hb EXCEPT !.durationSec = n]))

SetReps ==
    \E n \in Entries :
        Dispatch("reps", 0, n,
                 setHb([ret.state.hb EXCEPT !.reps = n]))

SetRestBetweenRepsSec ==
    \E n \in Entries :
        Dispatch("restBetweenRepsSec", 0, n,
                 setHb([ret.state.hb EXCEPT !.restBetweenRepsSec = n]))

SetMvc20kg ==
    \E n \in Entries :
        Dispatch("mvc20kg", 0, n,
                 setHb([ret.state.hb EXCEPT !.mvc20kg = IF Gt(n, 0) THEN n ELSE Undefined]))

SetKEdgeExp ==
    \E n \in Entries :
        Dispatch("kEdgeExp", 0, n,
                 setHb([ret.state.hb EXCEPT !.kEdgeExp = n]))

SetDensityExpHB ==
    \E n \in Entries :
        Dispatch("densityExpHB", 0, n,
                 setHb([ret.state.hb EXCEPT !.densityExpHB = n]))

SetSets ==
    \E n \in Entries :
        Dispatch("sets", 0, n,
                 setHb([ret.state.hb EXCEPT !.sets = MathMax(ONE, MathRound(n))]))

SetGrip ==
    \E v \in {"open", "half", "full"} :
        Dispatch("grip", 0, 0, setHb([ret.state.hb EXCEPT !.grip = v]))

Init ==
    /\ pc = "dirty"
    /\ args = PageInit
    /\ ret = NoRet

ClimbEdit ==
    EditGrade \/ EditTutSec \/ RemoveClimb \/ DuplicateClimb \/ AddClimb

HangboardEdit ==
    \/ SetBodyKg \/ SetAddedKg \/ SetEdgeMM \/ SetGrip \/ SetDurationSec
    \/ SetReps \/ SetRestBetweenRepsSec \/ SetMvc20kg \/ SetKEdgeExp
    \/ SetDensityExpHB \/ SetSets

Next ==
    \/ Render
    \/ SetVMax \/ SetRestDays \/ SetAvgRestBetweenClimbsSec \/ SetDensityExp
    \/ SetUseDensity \/ SetFatigueRate \/ SetAvg28d
    \/ ClimbEdit
    \/ HangboardEdit

Spec == Init /\ [][Next]_vars

\* C15: after any sequence of edits of the hangboard form the stored row has
\* sets >= 1 and reps >= 1, with sets a whole number.
C15_SetsAndReps ==
    /\ Ge(args.hb.sets, ONE)
    /\ IsFinite(args.hb.sets) /\ args.hb.sets % ONE = 0
    /\ Ge(args.hb.reps, ONE)

\* C16: once the page has re-rendered, the displayed TLI_boulder,
\* TLI_hangboard, TLI_total, ratioToAvg, spikeWarn and recommended rest days
\* equal the formulas applied to the current input state: no memo holds a
\* value computed from an older state.
C16_NoStaleMemo ==
    pc = "rendered" =>
        /\ ret.boulderMemo.value = boulderingTLI(boulderParams(args))
        /\ ret.hbMemo.value = hangboardSetTLI(args.hb)
        /\ ret.shown = Shown(boulderingTLI(boulderParams(args)),
                             hangboardSetTLI(args.hb), args)

\* a render after two edits of the bouldering inputs: the hangboard memo is
\* still the one of the first render, the bouldering memo is a new one
C16_Witness ==
    /\ pc = "rendered"
    /\ args.edits = 2
    /\ args.last = [op |-> "setFatigueRate", i |-> 0, n |-> 5 * (ONE \div 2)]
    /\ args.climbsRef = 1
    /\ ret.hbMemo.deps = hbDeps(PageInit)
    /\ ret.boulderMemo.deps = boulderDeps(args)
    /\ ret.shown.TLI_boulder # boulderingTLI(boulderParams(PageInit)).TLI_boulder
    /\ ret.shown.TLI_boulder > 0

\* the inputs other than the climbs are the same in states s and t
SameOtherInputs(s, t) ==
    /\ s.vMax = t.vMax
    /\ s.restDays = t.restDays
    /\ s.avgRestBetweenClimbsSec = t.avgRestBetweenClimbsSec
    /\ s.densityExp = t.densityExp
    /\ s.useDensity = t.useDensity
    /\ s.fatigueRate = t.fatigueRate
    /\ s.hb = t.hb
    /\ s.avg28d = t.avg28d

\* C19: Duplicate on row i inserts a copy of row i at position i + 1 and
\* leaves the other climbs in order; Remove on row i deletes that row and
\* keeps the others in order; Add appends {grade: 6, tutSec: 20}; editing a
\* field of row i changes only that field of row i; none of them changes
\* another input.  (Right after the handler: c is the list the page showed,
\* d the list the handler left.)
C19_ClimbEditFrame ==
    (pc = "dirty" /\ args.edits > 0) =>
        LET c == ret.state.climbs
            d == args.climbs
            op == args.last.op
            i == args.last.i
            n == args.last.n
        IN  /\ op \in {"Duplicate", "Remove", "Add", "grade", "tutSec"}
                => SameOtherInputs(ret.state, args)
            /\ op = "Duplicate"
                => /\ Len(d) = Len(c) + 1
                   /\ d[i + 1] = c[i]
                   /\ \A j \in 1 .. i : d[j] = c[j]
                   /\ \A j \in i + 1 .. Len(c) : d[j + 1] = c[j]
            /\ op = "Remove"
                => /\ Len(d) = Len(c) - 1
                   /\ \A j \in 1 .. i - 1 : d[j] = c[j]
                   /\ \A j \in i + 1 .. Len(c) : d[j - 1] = c[j]
            /\ op = "Add"
                => /\ Len(d) = Len(c) + 1
                   /\ d[Len(d)] = [grade |-> 6 * ONE, tutSec |-> 20 * ONE]
                   /\ \A j \in 1 .. Len(c) : d[j] = c[j]
            /\ op = "grade"
                => /\ Len(d) = Len(c)
                   /\ d[i] = [grade |-> n, tutSec |-> c[i].tutSec]
                   /\ \A j \in DOMAIN c : j # i => d[j] = c[j]
            /\ op = "tutSec"
                => /\ Len(d) = Len(c)
                   /\ d[i] = [grade |-> c[i].grade, tutSec |-> n]
                   /\ \A j \in DOMAIN c : j # i => d[j] = c[j]

\* Duplicate on the first of the four rows left by an edit of row 2
C19_Witness ==
    /\ pc = "dirty"
    /\ args.edits = 2
    /\ args.last = [op |-> "Duplicate", i |-> 1, n |-> 0]
    /\ args.climbs = <<[grade |-> 6 * ONE, tutSec |-> 25 * ONE],
                       [grade |-> 6 * ONE, tutSec |-> 25 * ONE],
                       [grade |-> 7 * ONE, tutSec |-> 0],
                       [grade |-> 8 * ONE, tutSec |-> 35 * ONE]>>
    /\ ret.state.climbs = <<[grade |-> 6 * ONE, tutSec |-> 25 * ONE],
                            [grade |-> 7 * ONE, tutSec |-> 0],
                            [grade |-> 8 * ONE, tutSec |-> 35 * ONE]>>
    /\ args.hb = PageInit.hb

----------------------------------------------------------------------------
(* recommendRestDays at two ratios                                         *)

\* every ratio of RecRatios and the three values that are not finite
PairRatios == RecRatios \cup {NegInfinity, Infinity, NaN}

InitRecPair ==
    /\ pc = "call"
    /\ args \in [TLI_total : RecTLIs \cup {NaN},
                 ratioToAvg : PairRatios,
                 otherRatio : PairRatios]
    /\ ret = NoRet

\* recommendRestDays for one TLI_total at two ratios
CallRecommendPair ==
    /\ pc = "call"
    /\ ret' = [rec |-> recommendRestDays(args.TLI_total, args.ratioToAvg),
               recOther |-> recommendRestDays(args.TLI_total, args.otherRatio)]
    /\ pc' = "done"
    /\ UNCHANGED args

NextRecPair == CallRecommendPair

SpecRecPair == InitRecPair /\ [][NextRecPair]_vars

\* C18: for every TLI_total and ratioToAvg, min and max are whole numbers
\* with 0 <= min <= max <= 3; max - min <= 1 unless TLI_total < 500, and
\* then min = 0 and the gap is at most 3; for one TLI_total both min and max
\* are non-decreasing in ratioToAvg.
C18_RangeGapMonotone ==
    pc = "done" =>
        LET r == ret.rec
            o == ret.recOther
        IN  /\ r.min \in 0 .. 3 /\ r.max \in 0 .. 3
            /\ r.min <= r.max
            /\ ~Lt(args.TLI_total, 500 * ONE) => r.max - r.min <= 1
            /\ Lt(args.TLI_total, 500 * ONE) => (r.min = 0 /\ r.max - r.min <= 3)
            /\ Le(args.ratioToAvg, args.otherRatio)
                   => (r.min <= o.min /\ r.max <= o.max)

\* a session below 500 at a ratio of 1.6 against one at 0.7: the gap is 3
C18_Witness ==
    /\ pc = "done"
    /\ args = [TLI_total |-> 400 * ONE, ratioToAvg |-> 700, otherRatio |-> 1600]
    /\ ret.rec = [min |-> 0, max |-> 1]
    /\ ret.recOther = [min |-> 0, max |-> 3]

----------------------------------------------------------------------------
(* The two variants on the operations they share                           *)

\* the helpers of the simplified variant (src/app/page.tsx)
simplified_clamp(n, lo, hi) == MathMin(hi, MathMax(lo, n))

simplified_relEdge(edgeMM, k) == MathPow(Div(20 * ONE, edgeMM), k)

simplified_gripMult(grip) ==
    IF grip = "full" THEN 1100 ELSE IF grip = "open" THEN 850 ELSE ONE

simplified_hangboardSetTLI_noClamp(row) ==
    LET mvc20 == IF row.mvc20kg = Undefined
                 THEN Add(row.bodyKg, 20 * ONE)
                 ELSE row.mvc20kg
        mvcEdgeKg == Mul(Mul(mvc20, simplified_relEdge(row.edgeMM, row.kEdgeExp)),
                         simplified_gripMult(row.grip))
        ri == Div(Add(row.bodyKg, row.addedKg), mvcEdgeKg)
        TUT == Mul(row.durationSec, row.reps)
        totalRest == Mul(row.restBetweenRepsSec, MathMax(0, Sub(row.reps, ONE)))
        DF == MathPow(Div(TUT, MathMax(ONE, Add(TUT, totalRest))),
                      row.densityExpHB)
    IN  Mul(Mul(ri, TUT), DF)

\* hangboardSetTLI of the simplified variant: it returns the number alone
simplified_hangboardSetTLI(row) ==
    LET mvc20 == IF row.mvc20kg = Undefined
                 THEN Add(row.bodyKg, 20 * ONE)
                 ELSE row.mvc20kg
        mvcEdgeKg == Mul(Mul(mvc20, simplified_relEdge(row.edgeMM, row.kEdgeExp)),
                         simplified_gripMult(row.grip))
        ri == simplified_clamp(Div(Add(row.bodyKg, row.addedKg), mvcEdgeKg),
                               0, 1200)
        TUT == Mul(row.durationSec, row.reps)
        totalRest == Mul(row.restBetweenRepsSec, MathMax(0, Sub(row.reps, ONE)))
        DF == MathPow(Div(TUT, MathMax(ONE, Add(TUT, totalRest))),
                      row.densityExpHB)
    IN  Mul(Mul(ri, TUT), DF)

\* the totals of the simplified Page from its hb row, TLI_boulder and avg28d
simplified_Totals(hb, TLI_boulder, avg28d) ==
    LET TLI_hb_set == simplified_hangboardSetTLI(hb)
        hangboard == Mul(TLI_hb_set, hb.sets)
        total == Add(TLI_boulder, hangboard)
    IN  [perSet |-> TLI_hb_set,
         TLI_hangboard |-> hangboard,
         TLI_total |-> total,
         spikeWarn |-> Gt(avg28d, 0) /\ Gt(total, Mul(1400, avg28d))]

\* the same totals of the richer Page
Totals(hb, TLI_boulder, avg28d) ==
    LET hbCalc == hangboardSetTLI(hb)
        hangboard == TLI_hangboard(hbCalc.perSet, hb.sets)
        total == TLI_total(TLI_boulder, hangboard)
    IN  [perSet |-> hbCalc.perSet,
         TLI_hangboard |-> hangboard,
         TLI_total |-> total,
         spikeWarn |-> spikeWarn(total, avg28d)]

\* hb rows of both Pages: loads above and below the clamp, an edge of 0 mm,
\* a negative rep count, the default exponents and others
VariantRows ==
    [bodyKg : {70 * ONE, -20 * ONE},
     addedKg : {40 * ONE, 10 * ONE, -80 * ONE},
     edgeMM : {15 * ONE, 0},
     grip : {"open", "half", "full"},
     durationSec : {0, 10 * ONE},
     reps : {-ONE, ONE, 5 * ONE},
     restBetweenRepsSec : {0, 3 * ONE},
     mvc20kg : {Undefined, 50 * ONE},
     densityExpHB : {-ONE, ONE \div 2},
     kEdgeExp : {0, 450},
     sets : {ONE, 3 * ONE}]

InitVariants ==
    /\ pc = "call"
    /\ args \in [hb : VariantRows,
                 TLI_boulder : {0, 1680 * ONE},
                 avg28d : {-100 * ONE, 0, 1200 * ONE}]
    /\ ret = NoRet

CallBothVariants ==
    /\ pc = "call"
    /\ ret' = [simplified |->
                   simplified_Totals(args.hb, args.TLI_boulder, args.avg28d),
               richer |-> Totals(args.hb, args.TLI_boulder, args.avg28d)]
    /\ pc' = "done"
    /\ UNCHANGED args

NextVariants == CallBothVariants

SpecVariants == InitVariants /\ [][NextVariants]_vars

\* C17: for every hangboard row the simplified hangboardSetTLI(row) equals
\* the perSet of the richer one; both variants compute TLI_hangboard =
\* perSet * sets and TLI_total = TLI_boulder + TLI_hangboard, and for equal
\* TLI_total and avg28d the same spikeWarn.
C17_VariantsAgree ==
    pc = "done" =>
        /\ ret.simplified.perSet = ret.richer.perSet
        /\ ret.simplified.TLI_hangboard = Mul(ret.richer.perSet, args.hb.sets)
        /\ ret.richer.TLI_hangboard = Mul(ret.richer.perSet, args.hb.sets)
        /\ ret.simplified.TLI_total = Add(args.TLI_boulder, ret.richer.TLI_hangboard)
        /\ ret.richer.TLI_total = Add(args.TLI_boulder, ret.richer.TLI_hangboard)
        /\ ret.simplified.spikeWarn = ret.richer.spikeWarn

\* the default row, three sets, on top of a bouldering load of 1680: 39.05
\* per set in both variants and a spike in both
C17_Witness ==
    /\ pc = "done"
    /\ args.hb = PageInit.hb
    /\ args.TLI_boulder = 1680 * ONE
    /\ args.avg28d = 1200 * ONE
    /\ ret.simplified.perSet = 39050
    /\ ret.richer.perSet = 39050
    /\ ret.simplified.TLI_total = 1797150
    /\ ret.simplified.spikeWarn /\ ret.richer.spikeWarn

=============================================================================
